---- MODULE Spec2Model ----
(***************************************************************************)
(* Model of pc60fw.py: the PC60FW session (main, the disconnect callback)  *)
(* and the frame decoder (handle_notification, process_messages).          *)
(*                                                                         *)
(* asyncio runs main and the two callbacks on one thread: a callback runs  *)
(* to completion before anything else runs.  The decode pass is modelled   *)
(* step by step (dpc is its position); every other action waits for        *)
(* dpc = "idle", which is that run-to-completion rule.                     *)
(*                                                                         *)
(* Sequences are 1-based here and 0-based in the source: Slice and Del     *)
(* take the source's 0-based bounds, idx is the source's 0-based idx.      *)
(***************************************************************************)
EXTENDS Integers, Sequences, FiniteSets, TLC

\* number of items (frames, garbage runs, truncated frames) the peripheral
\* transmits during one session
MaxItems == 2

\* longest transmission of the sessions whose liveness is checked
MaxFairBytes == 12

SYNC0 == 170
SYNC1 == 85
VITALS == 1
POLY == 140

Min(a, b) == IF a <= b THEN a ELSE b

\* s[a:b] of a bytearray, 0 <= a, 0 <= b (the slice is clamped to the length)
Slice(s, a, b) == SubSeq(s, a + 1, Min(b, Len(s)))

\* the bytearray s after del s[a:b], 0 <= a <= b (clamped to the length)
Del(s, a, b) == SubSeq(s, 1, Min(a, Len(s))) \o SubSeq(s, Min(b, Len(s)) + 1, Len(s))

----------------------------------------------------------------------------
(* libscrc.maxim8: CRC-8/MAXIM, polynomial 0x31 reflected (0x8C), init 0,  *)
(* no final xor, computed bit by bit.                                      *)

RECURSIVE Xor(_, _)
Xor(a, b) ==
  IF a = 0 THEN b
  ELSE IF b = 0 THEN a
  ELSE ((a + b) % 2) + 2 * Xor(a \div 2, b \div 2)

CrcShift(c) == IF c % 2 = 1 THEN Xor(c \div 2, POLY) ELSE c \div 2

\* one byte b taken into the CRC c: c xor b, then eight shifts (tabulated)
CrcTable ==
  [c \in 0..255 |->
    [b \in 0..255 |->
      CrcShift(CrcShift(CrcShift(CrcShift(
      CrcShift(CrcShift(CrcShift(CrcShift(Xor(c, b)))))))))]]

\* the CRC of msg[1..n]
RECURSIVE CrcUpTo(_, _)
CrcUpTo(msg, n) ==
  IF n = 0 THEN 0 ELSE CrcTable[CrcUpTo(msg, n - 1)][msg[n]]

maxim8(msg) == CrcUpTo(msg, Len(msg))

----------------------------------------------------------------------------
(* bytearray.find(b'\xaa\x55'): the lowest 0-based index of the marker,    *)
(* -1 when it is absent.                                                   *)

SyncAt(s) == {i \in 1..(Len(s) - 1) : s[i] = SYNC0 /\ s[i + 1] = SYNC1}

find(s) ==
  IF SyncAt(s) = {} THEN 0 - 1
  ELSE (CHOOSE i \in SyncAt(s) : \A j \in SyncAt(s) : i <= j) - 1

\* the end (exclusive) of the message whose marker is at idx
FrameEndShort(idx, length) == idx + 3 + length

FrameEnd(idx, length) == idx + 4 + length

\* self.stream.extend(data)
ExtendReplace(s, data) == data

Extend(s, data) == s \o data

----------------------------------------------------------------------------
(* What the peripheral transmits.  A frame of the device is                *)
(*   AA 55 | one byte | length L | L bytes, the last of them the CRC       *)
(* which is what process_messages cuts (4 + L bytes) and what              *)
(* set_brightness builds (length 03 for 85, level, CRC).                   *)

MkFrame(res, payload) ==
  LET body == <<SYNC0, SYNC1, res, Len(payload) + 1>> \o payload
  IN  body \o <<maxim8(body)>>

\* the same bytes with the trailing checksum byte damaged
Corrupt(f) == SubSeq(f, 1, Len(f) - 1) \o <<(f[Len(f)] + 1) % 256>>

FVitals   == MkFrame(0, <<1, 98, 75, 0, 10>>)
FVitals2  == MkFrame(15, <<1, 97, 60, 0, 25, 0>>)
FUnknown  == MkFrame(15, <<2, 7>>)
FTypeOnly == MkFrame(0, <<3>>)
FShort    == MkFrame(0, <<1, 98>>)
FEmpty    == MkFrame(0, <<>>)
FZero     == <<SYNC0, SYNC1, maxim8(<<SYNC0, SYNC1>>), 0>>

\* the frame of the wire-format table: length 05 counts the payload only
\* and the checksum follows as a tenth byte
SpecFrame ==
  LET body == <<SYNC0, SYNC1, 0, 5, 1, 98, 75, 0, 10>>
  IN  body \o <<maxim8(body)>>

ValidFrames == {FVitals, FVitals2, FUnknown, FTypeOnly, FShort, FEmpty, FZero}

Garbage == {<<0>>, <<9, SYNC0>>}

Items ==
  ValidFrames
    \cup {Corrupt(FVitals), Corrupt(FUnknown)}
    \cup {SpecFrame}
    \cup Garbage
    \cup {SubSeq(FUnknown, 1, 5)}

RECURSIVE Flatten(_)
Flatten(q) == IF q = <<>> THEN <<>> ELSE Head(q) \o Flatten(Tail(q))

Streams ==
  UNION {{Flatten(q) : q \in [1..n -> Items]} : n \in 1..MaxItems}

----------------------------------------------------------------------------
VARIABLES
  mainpc,        \* where main() is: the await it is suspended at
  dev,           \* self.dev: TRUE once the BleakClient is created
  logfile,       \* self.logfile: "none" or "open"
  subscribed,    \* start_notify has registered handle_notification
  quit,          \* self.quit, the asyncio.Queue
  disconnected,  \* the transport has fired handle_disconnect
  stream,        \* self.stream
  dpc,           \* position inside handle_notification / process_messages
  iter,          \* loop iterations of the pass in flight that decoded a frame
  passLen,       \* len(self.stream) when the pass in flight entered its loop
  message,       \* the local `message` after line 103, while it is interpreted
  decoded,       \* every value `message` took after line 103, in order
  crcWarnings,   \* number of "CRC error" warnings logged
  errors,        \* number of passes ended by an IndexError
  samples,       \* the values logged at line 108, in order
  logbuf,        \* lines written to self.logfile and not yet flushed
  logdisk,       \* lines flushed to pc60fw.log
  wire,          \* bytes the peripheral has still to deliver
  fed,           \* all bytes delivered to handle_notification so far
  single         \* at most one chunk has been delivered so far

vars ==
  <<mainpc, dev, logfile, subscribed, quit, disconnected, stream, dpc, iter,
    passLen, message, decoded, crcWarnings, errors, samples, logbuf, logdisk,
    wire, fed, single>>

sessionVars == <<mainpc, dev, logfile, subscribed, quit, disconnected>>
decoderVars ==
  <<stream, dpc, iter, passLen, message, decoded, crcWarnings, errors>>
sinkVars    == <<samples, logbuf, logdisk>>
feedVars    == <<wire, fed, single>>

\* __init__, and main() started by asyncio.run and suspended in discovery
Init ==
  /\ mainpc = "discover"
  /\ dev = FALSE
  /\ logfile = "none"
  /\ subscribed = FALSE
  /\ quit = <<>>
  /\ disconnected = FALSE
  /\ stream = <<>>
  /\ dpc = "idle"
  /\ iter = 0
  /\ passLen = 0
  /\ message = <<>>
  /\ decoded = <<>>
  /\ crcWarnings = 0
  /\ errors = 0
  /\ samples = <<>>
  /\ logbuf = <<>>
  /\ logdisk = <<>>
  /\ wire \in Streams
  /\ fed = <<>>
  /\ single = TRUE

----------------------------------------------------------------------------
(* main(): one action per await, each running main up to its next await.   *)
(* The library calls (discovery, connect, start_notify) may succeed or     *)
(* fail; get_characteristic asserts when a characteristic is missing.      *)

\* lines 28-39: a device was found; the client is created with
\* handle_disconnect as its disconnected_callback and connect() is awaited
DiscoverFound ==
  /\ mainpc = "discover"
  /\ dev' = TRUE
  /\ mainpc' = "connect"
  /\ UNCHANGED <<logfile, subscribed, quit, disconnected>>
  /\ UNCHANGED <<decoderVars, sinkVars, feedVars>>

\* main going on to create the client although no device was found
DiscoverNoneGoesOn ==
  /\ mainpc = "discover"
  /\ mainpc' = "connect"
  /\ UNCHANGED <<dev, logfile, subscribed, quit, disconnected>>
  /\ UNCHANGED <<decoderVars, sinkVars, feedVars>>

\* line 36: assert device, 'No matching device found!'
DiscoverNone ==
  /\ mainpc = "discover"
  /\ mainpc' = "failed"
  /\ UNCHANGED <<dev, logfile, subscribed, quit, disconnected>>
  /\ UNCHANGED <<decoderVars, sinkVars, feedVars>>

\* main going from the characteristic lookup to start_notify without
\* line 44, the opening of the log file
ConnectOkNoLog ==
  /\ mainpc = "connect"
  /\ mainpc' = "start_notify"
  /\ UNCHANGED <<dev, logfile, subscribed, quit, disconnected>>
  /\ UNCHANGED <<decoderVars, sinkVars, feedVars>>

\* lines 39-46: connected, both characteristics found, the log file is
\* opened and start_notify is awaited
ConnectOk ==
  /\ mainpc = "connect"
  /\ logfile' = "open"
  /\ mainpc' = "start_notify"
  /\ UNCHANGED <<dev, subscribed, quit, disconnected>>
  /\ UNCHANGED <<decoderVars, sinkVars, feedVars>>

\* line 39 raises, or line 65: assert False, 'Characteristic ... not found!'
ConnectFail ==
  /\ mainpc = "connect"
  /\ mainpc' = "failed"
  /\ UNCHANGED <<dev, logfile, subscribed, quit, disconnected>>
  /\ UNCHANGED <<decoderVars, sinkVars, feedVars>>

\* lines 46-50: subscribed; main waits on the quit queue
StartNotifyOk ==
  /\ mainpc = "start_notify"
  /\ subscribed' = TRUE
  /\ mainpc' = "wait"
  /\ UNCHANGED <<dev, logfile, quit, disconnected>>
  /\ UNCHANGED <<decoderVars, sinkVars, feedVars>>

\* line 46 raises
StartNotifyFail ==
  /\ mainpc = "start_notify"
  /\ mainpc' = "failed"
  /\ UNCHANGED <<dev, logfile, subscribed, quit, disconnected>>
  /\ UNCHANGED <<decoderVars, sinkVars, feedVars>>

\* what main does once quit.get() has returned: it returns
AfterQuit == "done"

\* line 50: await self.quit.get() returns an item; main returns and
\* asyncio.run closes the loop
QuitGet ==
  /\ mainpc = "wait"
  /\ dpc = "idle"
  /\ quit # <<>>
  /\ quit' = Tail(quit)
  /\ mainpc' = AfterQuit
  /\ UNCHANGED <<dev, logfile, subscribed, disconnected>>
  /\ UNCHANGED <<decoderVars, sinkVars, feedVars>>

\* self.quit.put_nowait(True)
QuitPutLost(q) == q

QuitPut(q) == Append(q, TRUE)

\* handle_disconnect, fired by the transport once, at any await of main
\* after the client exists
Disconnect ==
  /\ dev
  /\ mainpc \in {"connect", "start_notify", "wait"}
  /\ dpc = "idle"
  /\ ~disconnected
  /\ disconnected' = TRUE
  /\ quit' = QuitPut(quit)
  /\ UNCHANGED <<mainpc, dev, logfile, subscribed>>
  /\ UNCHANGED <<decoderVars, sinkVars, feedVars>>

----------------------------------------------------------------------------
(* handle_notification and process_messages                                *)

\* lines 67-70: the next n bytes of the transmission arrive as one chunk
HandleNotification(n) ==
  /\ subscribed
  /\ mainpc = "wait"
  /\ dpc = "idle"
  /\ n \in 1..Len(wire)
  /\ stream' = Extend(stream, SubSeq(wire, 1, n))
  /\ passLen' = Len(stream')
  /\ dpc' = "loop"
  /\ wire' = SubSeq(wire, n + 1, Len(wire))
  /\ fed' = fed \o SubSeq(wire, 1, n)
  /\ single' = (fed = <<>>)
  /\ UNCHANGED <<iter, message, decoded, crcWarnings, errors>>
  /\ UNCHANGED <<sessionVars, sinkVars>>

\* lines 78-91: a whole message is in the buffer at its first marker
idx == find(stream)
length == stream[idx + 3 + 1]

Complete(s) ==
  /\ Len(s) # 0
  /\ find(s) >= 0
  /\ Len(s) >= find(s) + 4
  /\ Len(s) >= FrameEnd(find(s), s[find(s) + 3 + 1])

\* lines 79, 84, 113, 115: break; process_messages and the handler return
Break ==
  /\ dpc = "loop"
  /\ ~Complete(stream)
  /\ dpc' = "idle"
  /\ iter' = 0
  /\ passLen' = 0
  /\ UNCHANGED <<stream, message, decoded, crcWarnings, errors>>
  /\ UNCHANGED <<sessionVars, sinkVars, feedVars>>

\* line 94: del self.stream[0: idx]
TrimmedNothing == stream

Trimmed == Del(stream, 0, idx)

\* line 96: message = self.stream[0: idx + 4 + length]
Whole == Slice(Trimmed, 0, FrameEnd(idx, length))

\* line 103: message = message[2: idx + 3 + length]
Stripped == Slice(Whole, 2, idx + 3 + length)

\* lines 94-105: cut one message out of the buffer
DecodeFrame ==
  /\ dpc = "loop"
  /\ Complete(stream)
  /\ crcWarnings' = IF maxim8(Whole) # 0 THEN crcWarnings + 1 ELSE crcWarnings
  /\ message' = Stripped
  /\ decoded' = Append(decoded, Stripped)
  /\ stream' = Del(Trimmed, 0, FrameEnd(idx, length))
  /\ iter' = iter + 1
  /\ dpc' = "interp"
  /\ UNCHANGED <<passLen, errors>>
  /\ UNCHANGED <<sessionVars, sinkVars, feedVars>>

\* line 107: message[2] == 0x01
IsVitalsAny(m) == TRUE

IsVitals(m) == m[2 + 1] = VITALS

\* lines 107-110 index message[2], message[3], message[4], message[6]
Raises(m) == IF Len(m) < 3 THEN TRUE ELSE IsVitals(m) /\ Len(m) < 7

\* the values of line 108
SampleShifted(m) == [spo2 |-> m[3 + 1], pr |-> m[4 + 1], pi10 |-> m[5 + 1]]

Sample(m) == [spo2 |-> m[3 + 1], pr |-> m[4 + 1], pi10 |-> m[6 + 1]]

\* the line of lines 109-110 without its timestamp: "%d\t%d\t%1.1f" of
\* message[3], message[4], message[6] / 10
Line(m) ==
  [spo2 |-> m[3 + 1], pr |-> m[4 + 1],
   pi |-> <<m[6 + 1] \div 10, m[6 + 1] % 10>>]

\* lines 107-110 raise IndexError: the pass ends there, inside the callback
InterpretRaises ==
  /\ dpc = "interp"
  /\ Raises(message)
  /\ errors' = errors + 1
  /\ dpc' = "idle"
  /\ iter' = 0
  /\ passLen' = 0
  /\ message' = <<>>
  /\ UNCHANGED <<stream, decoded, crcWarnings>>
  /\ UNCHANGED <<sessionVars, sinkVars, feedVars>>

\* lines 107-110: a vitals message is logged and written to the log file
InterpretVitals ==
  /\ dpc = "interp"
  /\ ~Raises(message)
  /\ IsVitals(message)
  /\ samples' = Append(samples, Sample(message))
  /\ logbuf' = Append(logbuf, Line(message))
  /\ dpc' = "flush"
  /\ UNCHANGED logdisk
  /\ UNCHANGED <<stream, iter, passLen, message, decoded, crcWarnings, errors>>
  /\ UNCHANGED <<sessionVars, feedVars>>

\* line 107 is false: the message is ignored, back to the top of the loop
InterpretOther ==
  /\ dpc = "interp"
  /\ ~Raises(message)
  /\ ~IsVitals(message)
  /\ dpc' = "loop"
  /\ message' = <<>>
  /\ UNCHANGED <<stream, iter, passLen, decoded, crcWarnings, errors>>
  /\ UNCHANGED <<sessionVars, sinkVars, feedVars>>

\* self.logfile.flush()
FlushedNothing(disk, buf) == disk

Flushed(disk, buf) == disk \o buf

\* line 111, then back to the top of the loop
Flush ==
  /\ dpc = "flush"
  /\ logdisk' = Flushed(logdisk, logbuf)
  /\ logbuf' = <<>>
  /\ dpc' = "loop"
  /\ message' = <<>>
  /\ UNCHANGED samples
  /\ UNCHANGED <<stream, iter, passLen, decoded, crcWarnings, errors>>
  /\ UNCHANGED <<sessionVars, feedVars>>

----------------------------------------------------------------------------
Next ==
  \/ DiscoverFound
  \/ DiscoverNone
  \/ ConnectOk
  \/ ConnectFail
  \/ StartNotifyOk
  \/ StartNotifyFail
  \/ QuitGet
  \/ Disconnect
  \/ \E n \in 1..Len(wire) : HandleNotification(n)
  \/ Break
  \/ DecodeFrame
  \/ InterpretRaises
  \/ InterpretVitals
  \/ InterpretOther
  \/ Flush

Spec == Init /\ [][Next]_vars

\* The event loop runs whatever is ready: a decode pass runs to its end once
\* started, the library's awaits end (each has the 10 s timeout of line 19)
\* and main is resumed when the await it is suspended at has ended.  At most
\* one of these steps is enabled in any state.
Progress ==
  \/ DiscoverFound \/ DiscoverNone
  \/ ConnectOk \/ ConnectFail
  \/ StartNotifyOk \/ StartNotifyFail
  \/ QuitGet
  \/ Break \/ DecodeFrame \/ InterpretRaises \/ InterpretVitals
  \/ InterpretOther \/ Flush

FairInit == Init /\ Len(wire) <= MaxFairBytes

FairSpec == FairInit /\ [][Next]_vars /\ WF_vars(Progress)

----------------------------------------------------------------------------
(* Vocabulary of the claims, stated on the transmitted bytes alone.        *)

\* f has the structure of one frame: marker, one byte, length L, L bytes
WellFormed(f) ==
  IF Len(f) < 4 THEN FALSE
  ELSE f[1] = SYNC0 /\ f[2] = SYNC1 /\ Len(f) = 4 + f[4]

\* a well-formed frame whose CRC residue is zero
ValidFrame(f) == IF WellFormed(f) THEN maxim8(f) = 0 ELSE FALSE

\* a well-formed frame whose trailing checksum byte is wrong
CorruptedFrame(f) == IF WellFormed(f) THEN maxim8(f) # 0 ELSE FALSE

\* the frame without its sync marker and its trailing checksum byte
StripOf(f) == SubSeq(f, 3, Len(f) - 1)

\* the frame has a type code (offset 4) that is not its own checksum byte
HasType(f) == f[4] >= 2

\* the vitals fields (offsets 5, 6, 8) lie before the checksum byte
HasVitalsFields(f) == f[4] >= 6

\* the samples and log lines a frame at the start of the buffer stands for
SamplesOf(f) ==
  IF HasVitalsFields(f) /\ f[5] = 1
  THEN <<[spo2 |-> f[6], pr |-> f[7], pi10 |-> f[9]]>>
  ELSE <<>>

LinesOf(f) ==
  IF HasVitalsFields(f) /\ f[5] = 1
  THEN <<[spo2 |-> f[6], pr |-> f[7], pi |-> <<f[9] \div 10, f[9] % 10>>]>>
  ELSE <<>>

\* frames on which lines 107-110 index past the end of the message
IndexErrorOf(f) == IF ~HasType(f) THEN 1 ELSE IF f[5] = 1 /\ ~HasVitalsFields(f) THEN 1 ELSE 0

NoSync(g) == \A i \in 1..(Len(g) - 1) : ~(g[i] = SYNC0 /\ g[i + 1] = SYNC1)

\* no complete frame at the first sync marker of buffer s
NoCompleteFrame(s) ==
  IF NoSync(s) THEN TRUE
  ELSE LET i == CHOOSE i \in 1..(Len(s) - 1) :
                  /\ s[i] = SYNC0 /\ s[i + 1] = SYNC1
                  /\ NoSync(SubSeq(s, 1, i))
       IN  IF Len(s) < (i - 1) + 4 THEN TRUE
           ELSE Len(s) < (i - 1) + 4 + s[i + 3]

\* the chunk of the handle_notification call that a step starts
ChunkOfStep == SubSeq(fed', Len(fed) + 1, Len(fed'))

----------------------------------------------------------------------------
\* C1 Fragmentation invariance: whenever the bytes delivered so far to an
\* empty decoder are exactly one well-formed frame with a valid checksum and
\* the decode pass has returned, then however the bytes were cut into chunks
\* (one chunk, single bytes, anything between) the decoder has decoded
\* exactly one message, the frame without marker and checksum, has recorded
\* the frame's sample (if it carries one), has warned about no checksum and
\* its buffer is empty.
C1_FragmentationInvariance ==
  (dpc = "idle" /\ ValidFrame(fed)) =>
    /\ decoded = <<StripOf(fed)>>
    /\ samples = SamplesOf(fed)
    /\ logdisk = LinesOf(fed)
    /\ logbuf = <<>>
    /\ crcWarnings = 0
    /\ errors = IndexErrorOf(fed)
    /\ stream = <<>>

\* a vitals frame that arrived in several chunks and was decoded
C1_Witness ==
  /\ dpc = "idle"
  /\ ValidFrame(fed)
  /\ ~single
  /\ Len(samples) = 1
  /\ stream = <<>>

\* C2 No premature decode: a call of handle_notification appends its chunk
\* to the buffer, and when the buffer then holds no complete frame at its
\* first sync marker the pass returns at once: no message decoded, no sample
\* recorded, no line written, no error, no warning, and the buffer is the
\* previous buffer followed by the chunk.
C2_NoPrematureDecode ==
  [][ /\ (dpc = "idle" /\ dpc' = "loop") => stream' = stream \o ChunkOfStep
      /\ (dpc = "loop" /\ iter = 0 /\ NoCompleteFrame(stream)) =>
           /\ dpc' = "idle"
           /\ stream' = stream
           /\ decoded' = decoded
           /\ samples' = samples
           /\ logbuf' = logbuf
           /\ logdisk' = logdisk
           /\ errors' = errors
           /\ crcWarnings' = crcWarnings ]_vars

\* a pass has returned leaving a frame whose length byte is there and whose
\* payload is not: everything delivered is still buffered, nothing decoded
C2_Witness ==
  /\ dpc = "idle"
  /\ ~single
  /\ Len(stream) >= 4
  /\ ~NoSync(stream)
  /\ stream = fed
  /\ decoded = <<>>

\* C3 Garbage-prefix resilience: when the bytes delivered to an empty decoder
\* are a non-empty prefix without sync marker followed by one valid frame,
\* exactly one message is decoded, it is the frame without marker and
\* checksum byte, and the samples are those of the frame alone.
C3_GarbagePrefix ==
  dpc = "idle" =>
    \A k \in 1..(Len(fed) - 4) :
      (NoSync(SubSeq(fed, 1, k)) /\ ValidFrame(SubSeq(fed, k + 1, Len(fed)))) =>
        /\ decoded = <<StripOf(SubSeq(fed, k + 1, Len(fed)))>>
        /\ samples = SamplesOf(SubSeq(fed, k + 1, Len(fed)))

\* C4 Multi-frame batch: one chunk made of two complete, back-to-back valid
\* frames, delivered to an empty buffer, yields exactly two decoded
\* messages, one per frame in arrival order, and leaves the buffer empty.
C4_MultiFrameBatch ==
  (dpc = "idle" /\ single) =>
    \A k \in 4..(Len(fed) - 4) :
      (ValidFrame(SubSeq(fed, 1, k)) /\ ValidFrame(SubSeq(fed, k + 1, Len(fed)))) =>
        /\ decoded = <<StripOf(SubSeq(fed, 1, k)), StripOf(SubSeq(fed, k + 1, Len(fed)))>>
        /\ stream = <<>>

\* C5 as stated: the 10-byte frame of the wire-format table (length 05, the
\* checksum as a tenth byte after the five payload bytes) yields without
\* error one sample 98 / 75 / 1.0 and one log line.
C5_SpecFrameDecodes ==
  (dpc = "idle" /\ fed = SpecFrame) =>
    /\ errors = 0
    /\ samples = <<[spo2 |-> 98, pr |-> 75, pi10 |-> 10]>>
    /\ logdisk = <<[spo2 |-> 98, pr |-> 75, pi |-> <<1, 0>>]>>

\* C5 amended: the length byte counts the payload and the checksum.  The
\* 10-byte frame AA 55 00 06 01 62 4B 00 0A E1 (E1 the CRC-8/MAXIM of the 9
\* bytes before it), fed to an empty decoder in any chunking, yields without
\* error or warning exactly one sample 98 / 75 / 1.0 and one flushed log line.
C5_WireFormat ==
  (dpc = "idle" /\ fed = <<170, 85, 0, 6, 1, 98, 75, 0, 10, 225>>) =>
    /\ maxim8(SubSeq(fed, 1, 9)) = fed[10]
    /\ errors = 0
    /\ crcWarnings = 0
    /\ samples = <<[spo2 |-> 98, pr |-> 75, pi10 |-> 10]>>
    /\ logdisk = <<[spo2 |-> 98, pr |-> 75, pi |-> <<1, 0>>]>>
    /\ logbuf = <<>>
    /\ stream = <<>>

C5_Witness ==
  /\ dpc = "idle"
  /\ fed = <<170, 85, 0, 6, 1, 98, 75, 0, 10, 225>>
  /\ Len(logdisk) = 1

\* C6 Checksum leniency: a structurally complete frame with a wrong trailing
\* checksum byte is warned about, consumed and decoded to the same message
\* as the intact frame, and when its type code is 0x01 its sample is recorded.
C6_ChecksumLeniency ==
  (dpc = "idle" /\ CorruptedFrame(fed)) =>
    /\ crcWarnings = 1
    /\ stream = <<>>
    /\ decoded = <<StripOf(fed)>>
    /\ (HasType(fed) /\ fed[5] = 1) =>
         /\ Len(samples) = 1
         /\ samples[1] = [spo2 |-> fed[6], pr |-> fed[7], pi10 |-> fed[9]]

LineOfSample(smp) ==
  [spo2 |-> smp.spo2, pr |-> smp.pr, pi |-> <<smp.pi10 \div 10, smp.pi10 % 10>>]

\* the samples of the decoded messages that carry one, in decoding order
RECURSIVE VitalsIn(_)
VitalsIn(ms) ==
  IF ms = <<>> THEN <<>>
  ELSE LET m == Head(ms)
       IN  (IF Len(m) >= 7
            THEN (IF m[3] = 1
                  THEN <<[spo2 |-> m[4], pr |-> m[5], pi10 |-> m[7]]>>
                  ELSE <<>>)
            ELSE <<>>) \o VitalsIn(Tail(ms))

Terminated == mainpc \in {"done", "failed"}

\* C8 Disconnect ends the session: from the moment handle_disconnect has
\* fired, the quit item stays in the queue until main has ended (the signal
\* is not lost), main eventually ends, a main that is or gets to its wait on
\* the queue eventually returns from it, and main never starts discovery or
\* a connection again.
C8_DisconnectEndsSession ==
  /\ [][(disconnected' /\ ~Terminated') => quit' # <<>>]_vars
  /\ (disconnected ~> Terminated)
  /\ [][mainpc = "wait" => mainpc' \in {"wait", "done"}]_vars
  /\ [][disconnected => (mainpc' \in {"discover", "connect"} => mainpc' = mainpc)]_vars

\* the disconnect fired, main took the item from the queue and returned
C8_Witness ==
  /\ disconnected
  /\ mainpc = "done"
  /\ quit = <<>>

\* C9 Durable sink: every recorded sample has exactly one log line, written
\* and then flushed before the decoder goes back to the top of its loop;
\* whenever the decoder is not between write and flush, no written line is
\* unflushed and the flushed lines are the lines of the recorded samples in
\* order, which is the order in which their frames were decoded.
C9_DurableSink ==
  /\ (dpc # "flush") =>
       /\ logbuf = <<>>
       /\ logdisk = [i \in 1..Len(samples) |-> LineOfSample(samples[i])]
  /\ (dpc = "flush") =>
       /\ Len(logbuf) = 1
       /\ logdisk \o logbuf = [i \in 1..Len(samples) |-> LineOfSample(samples[i])]
  /\ (dpc # "interp") => samples = VitalsIn(decoded)

\* two different samples were recorded and both lines are on disk, in order
C9_Witness ==
  /\ dpc = "idle"
  /\ Len(samples) = 2
  /\ samples[1] # samples[2]
  /\ Len(logdisk) = 2
  /\ logdisk[1].spo2 = samples[1].spo2

\* C10 No work after cancellation: once handle_disconnect has put the quit
\* item, no decode pass starts, no message is decoded and no sample is
\* recorded.
C10_NoWorkAfterCancel ==
  [][disconnected =>
       /\ ~(dpc = "idle" /\ dpc' = "loop")
       /\ decoded' = decoded
       /\ samples' = samples]_vars

----------------------------------------------------------------------------
\* C11 Discovery failure is fatal: when discovery ends without a device,
\* main ends with an error at once; as long as no device was found no client
\* exists (so no connection is attempted and no disconnect callback fires),
\* the log file is not opened, notifications are not subscribed and nothing
\* reaches the decoder; a failed main stays failed (no retry).
C11_DiscoveryFailureFatal ==
  /\ [][(mainpc = "discover" /\ mainpc' # "discover" /\ ~dev')
          => mainpc' = "failed"]_vars
  /\ [][~dev' =>
          /\ mainpc' \in {"discover", "failed"}
          /\ logfile' = "none"
          /\ ~subscribed'
          /\ ~disconnected'
          /\ quit' = <<>>
          /\ fed' = <<>>
          /\ dpc' = "idle"]_vars
  /\ [][mainpc = "failed" => UNCHANGED <<mainpc, dev, logfile, subscribed>>]_vars

\* discovery found nothing and main has ended with the assertion error
C11_Witness ==
  /\ mainpc = "failed"
  /\ ~dev
  /\ logfile = "none"

\* C12 Exact consumption: the step that cuts a frame out of the buffer, its
\* marker at idx and its length byte L, removes the idx bytes before the
\* marker and the 4+L bytes of the frame and nothing else: the buffer is
\* left with exactly the bytes that followed the frame, unchanged and in
\* order, for every idx >= 0.
C12_ExactConsumption ==
  [][(dpc = "loop" /\ dpc' = "interp") =>
       stream' = SubSeq(stream, idx + 4 + length + 1, Len(stream))]_vars

\* C13 Checksum scope: the step that cuts a frame out of the buffer counts a
\* checksum warning if and only if the CRC-8/MAXIM residue of the frame's
\* own 4+L bytes (marker to trailing checksum byte) is not zero, whatever
\* precedes the marker or follows the frame in the buffer.
C13_ChecksumScope ==
  [][(dpc = "loop" /\ dpc' = "interp") =>
       crcWarnings' = crcWarnings +
         (IF maxim8(SubSeq(stream, idx + 1, idx + 4 + length)) # 0
          THEN 1 ELSE 0)]_vars

\* C14 Buffer invariant, as claimed: whenever handle_notification has
\* returned and the buffer contains the marker AA 55, the first occurrence
\* of the marker is at index 0 of the buffer.
C14_BufferInvariant ==
  (dpc = "idle" /\ ~NoSync(stream)) => find(stream) = 0

\* C14 Buffer invariant, as the code keeps it: the bytes before the first
\* marker are discarded by the step that cuts out the frame at that marker
\* and not before.  That step leaves in the buffer only bytes from behind
\* the frame, and its message starts at the frame's byte after the marker
\* (frame offsets 2 .. 2+L).  A pass that stops at the top of the loop
\* leaves the buffer as it is, bytes before the marker included, and then
\* no complete frame stands at the first marker.
C14_PrefixDiscardedAtDecode ==
  /\ [][(dpc = "loop" /\ dpc' = "interp") =>
          /\ Len(stream') <= Len(stream) - (idx + 4 + length)
          /\ stream' = SubSeq(stream, Len(stream) - Len(stream') + 1, Len(stream))
          /\ Len(message') >= length + 1
          /\ SubSeq(message', 1, length + 1)
               = SubSeq(stream, idx + 3, idx + 3 + length)]_vars
  /\ [][(dpc = "loop" /\ dpc' = "idle") =>
          /\ stream' = stream
          /\ NoCompleteFrame(stream)]_vars

\* bytes before the marker were kept over the end of a call and went away
\* when a later chunk completed the frame
C14_Witness ==
  /\ dpc = "interp"
  /\ ~single
  /\ Len(decoded) = 1
  /\ Len(fed) >= 6
  /\ fed[1] # SYNC0
  /\ fed[2] = SYNC0
  /\ fed[3] = SYNC1
  /\ stream = <<>>

\* C15 Termination of a decode pass: every pass returns; each iteration that
\* does not stop (it cuts out a frame) makes the buffer at least 4 bytes
\* shorter, no step of a pass makes it longer, and with n the buffer length
\* at the start of the pass the iterations that cut out a frame number at
\* most n / 4 (one more iteration, at most, stops the pass).
C15_PassTerminates ==
  /\ (dpc # "idle") ~> (dpc = "idle")
  /\ [][(dpc = "loop" /\ dpc' = "interp") => Len(stream') + 4 <= Len(stream)]_vars
  /\ [][dpc # "idle" => Len(stream') <= Len(stream)]_vars
  /\ [][dpc' # "idle" => 4 * iter' + Len(stream') <= passLen']_vars

\* a pass has cut out two frames and is back at the top of its loop
C15_Witness ==
  /\ dpc = "loop"
  /\ iter = 2
  /\ passLen >= 8
  /\ Len(stream) <= passLen - 8

\* C16 Interpretation mapping: when the bytes delivered to an empty decoder
\* are one frame with a type byte and the pass has returned, a sample was
\* recorded if and only if the frame's byte at offset 4 is 0x01, at most one
\* sample was recorded, and its SpO2, pulse rate and perfusion index (in
\* tenths) are the frame's bytes at offsets 5, 6 and 8, whatever they are.
C16_InterpretationMapping ==
  (dpc = "idle" /\ WellFormed(fed) /\ HasType(fed)) =>
     /\ (samples # <<>>) <=> (fed[5] = VITALS)
     /\ Len(samples) <= 1
     /\ (samples # <<>>) =>
          samples[1] = [spo2 |-> fed[6], pr |-> fed[7], pi10 |-> fed[9]]

----------------------------------------------------------------------------
\* lines 76-115 as a function of the buffer: what one pass over buffer s
\* adds to the results out and what it leaves in the buffer
RECURSIVE process_messages(_, _)
process_messages(s, out) ==
  IF ~Complete(s)
  THEN [stream |-> s, decoded |-> out.decoded, samples |-> out.samples,
        crcWarnings |-> out.crcWarnings, errors |-> 0]
  ELSE LET i    == find(s)
           L    == s[i + 3 + 1]
           t    == Del(s, 0, i)
           w    == Slice(t, 0, FrameEnd(i, L))
           m    == Slice(w, 2, i + 3 + L)
           rest == Del(t, 0, FrameEnd(i, L))
           out1 == [decoded |-> Append(out.decoded, m),
                    samples |-> out.samples,
                    crcWarnings |-> out.crcWarnings
                                      + (IF maxim8(w) # 0 THEN 1 ELSE 0)]
       IN  IF Raises(m)
           THEN [stream |-> rest, decoded |-> out1.decoded,
                 samples |-> out1.samples,
                 crcWarnings |-> out1.crcWarnings, errors |-> 1]
           ELSE IF IsVitals(m)
           THEN process_messages(rest,
                  [out1 EXCEPT !.samples = Append(@, Sample(m))])
           ELSE process_messages(rest, out1)

\* handle_notification(bytes) on a freshly constructed decoder
OneChunk(bytes) ==
  process_messages(Extend(<<>>, bytes),
                   [decoded |-> <<>>, samples |-> <<>>, crcWarnings |-> 0])

\* C17 Chunking independence for arbitrary streams: whenever a pass has
\* returned, the decoded messages, the recorded samples, the number of
\* checksum warnings and the buffer are those that the same bytes give when
\* they are delivered to an empty decoder as one chunk; so every two ways
\* of cutting a byte sequence into chunks give the same results.
C17_ChunkingIndependence ==
  (dpc = "idle" /\ fed # <<>>) =>
     LET r == OneChunk(fed)
     IN  /\ decoded = r.decoded
         /\ samples = r.samples
         /\ crcWarnings = r.crcWarnings
         /\ stream = r.stream

\* C18 Ingest never fails: whatever bytes arrive in whatever chunks, frames
\* with length byte 0 or 1 and type-0x01 frames with length byte below 6
\* included, no call of handle_notification ends in an error (and so no
\* pass that ends in an error has removed a frame from the buffer).
C18_IngestNeverFails ==
  /\ errors = 0
  /\ dpc = "interp" => ~Raises(message)

\* the order in which main goes from one await to the next
MainOrder ==
  {<<"discover", "connect">>, <<"discover", "failed">>,
   <<"connect", "start_notify">>, <<"connect", "failed">>,
   <<"start_notify", "wait">>, <<"start_notify", "failed">>,
   <<"wait", "done">>}

\* C19 Session ordering: main goes through discovery, connect with the
\* characteristic lookup and the opening of the log file, and subscription
\* in that order; the log file is open only once the device was found and
\* connected, notifications are subscribed only with the log file open, and
\* a chunk reaches the decoder (and a pass runs, and a sample can be
\* recorded) only after the subscription, hence with the log file open;
\* each delivered chunk is appended to the end of the buffer as it is.
C19_SessionOrdering ==
  /\ [][mainpc' # mainpc => <<mainpc, mainpc'>> \in MainOrder]_vars
  /\ [][logfile' = "open" => (dev' /\ mainpc' \notin {"discover", "connect"})]_vars
  /\ [][subscribed' => (logfile' = "open" /\ mainpc' \in {"wait", "done"})]_vars
  /\ [][(dpc' # "idle" \/ fed' # <<>> \/ samples' # <<>>)
          => (subscribed' /\ logfile' = "open")]_vars
  /\ [][fed' # fed =>
          /\ dpc = "idle"
          /\ ChunkOfStep # <<>>
          /\ fed' = fed \o ChunkOfStep
          /\ stream' = stream \o ChunkOfStep]_vars

\* a sample is being written to the open log file, from the second chunk
\* delivered after the subscription
C19_Witness ==
  /\ dpc = "flush"
  /\ subscribed
  /\ logfile = "open"
  /\ mainpc = "wait"
  /\ ~single
  /\ Len(samples) = 1

----------------------------------------------------------------------------
(* set_brightness, and the decoder fed with the commands it builds.        *)

\* bytes([brightness]) of line 56 takes the values 0..255
Levels == 0..255

\* lines 56-57 without message.append(libscrc.maxim8(message))
set_brightnessNoCrc(brightness) ==
  <<SYNC0, SYNC1, 240, 3, 133, brightness>>

\* lines 56-57: the message that line 58 writes to the device
set_brightness(brightness) ==
  LET msg == <<SYNC0, SYNC1, 240, 3, 133, brightness>>
  IN  Append(msg, maxim8(msg))

\* the transmissions of the loopback: one command of set_brightness, or
\* one item of the peripheral's transmissions
EchoStreams == {set_brightness(l) : l \in Levels} \cup Items

\* __init__ with the peripheral echoing a command (or sending one item)
EchoInit ==
  /\ mainpc = "discover"
  /\ dev = FALSE
  /\ logfile = "none"
  /\ subscribed = FALSE
  /\ quit = <<>>
  /\ disconnected = FALSE
  /\ stream = <<>>
  /\ dpc = "idle"
  /\ iter = 0
  /\ passLen = 0
  /\ message = <<>>
  /\ decoded = <<>>
  /\ crcWarnings = 0
  /\ errors = 0
  /\ samples = <<>>
  /\ logbuf = <<>>
  /\ logdisk = <<>>
  /\ wire \in EchoStreams
  /\ fed = <<>>
  /\ single = TRUE

EchoSpec == EchoInit /\ [][Next]_vars

\* the whole transmission of this behaviour, delivered or not
Transmission == fed \o wire

\* the transmission is a command of class F0, as set_brightness builds them
\* and no item of the peripheral is
IsCommand(t) == IF Len(t) < 3 THEN FALSE ELSE t[3] = 240

\* C20 Encoder/decoder agreement: for every level 0..255 the command of
\* set_brightness is the 6 bytes AA 55 F0 03 85 <level> followed by the
\* CRC-8/MAXIM of those 6 bytes; once these 7 bytes have all been delivered
\* to the empty decoder, in whatever chunks, and the pass has returned,
\* exactly one message (F0 03 85 <level>) was decoded, without checksum
\* warning, error or sample, and the buffer is empty; before the last byte
\* is delivered nothing is decoded.
C20_EncoderDecoderAgreement ==
  IsCommand(Transmission) =>
    /\ Len(Transmission) = 7
    /\ Transmission[6] \in Levels
    /\ Transmission = set_brightness(Transmission[6])
    /\ SubSeq(Transmission, 1, 6) = <<170, 85, 240, 3, 133, Transmission[6]>>
    /\ Transmission[7] = maxim8(SubSeq(Transmission, 1, 6))
    /\ Len(Transmission) = 4 + Transmission[4]
    /\ maxim8(Transmission) = 0
    /\ (dpc = "idle" /\ wire = <<>>) =>
         /\ decoded = <<<<240, 3, 133, Transmission[6]>>>>
         /\ stream = <<>>
    /\ wire # <<>> => decoded = <<>>
    /\ crcWarnings = 0
    /\ errors = 0
    /\ samples = <<>>

\* the command for level 255 came back in several chunks and was decoded
C20_Witness ==
  /\ dpc = "idle"
  /\ wire = <<>>
  /\ ~single
  /\ fed = <<170, 85, 240, 3, 133, 255, maxim8(<<170, 85, 240, 3, 133, 255>>)>>
  /\ decoded = <<<<240, 3, 133, 255>>>>
  /\ stream = <<>>

====
